---- MODULE Spec2Model ----
(***************************************************************************)
(* Browser chat client of Summoners Reunion (frontend/js/chat.js).         *)
(*                                                                         *)
(* JavaScript runs one handler at a time and an async function gives up    *)
(* control only at an await.  Every action below is therefore one          *)
(* synchronous run of the code: from an event (click, timer, promise       *)
(* resolution) up to the next await or the return.                         *)
(*                                                                         *)
(* Text is a sequence of one-character strings, so that trim, split and    *)
(* the HTML formatting are computed as the code computes them.             *)
(***************************************************************************)
EXTENDS Integers, Sequences, FiniteSets, TLC

\* ------------------------------------------------------------------ bounds
MaxSends == 2          \* accepted sends in one run
MaxFrames == 2         \* lines of response bodies delivered in one run
MaxClock == 1          \* instants of the clock
MaxPendingHealth == 1  \* health checks in flight at once
MaxStreamFrames == 3   \* lines of the response body in a run of one send
MaxOverlap == 2        \* health checks in flight at once in a run of one send

\* ------------------------------------------------------------------- text
Whitespace == {" ", "\n"}

RECURSIVE TrimStart(_)
TrimStart(s) ==
    IF s = <<>> THEN <<>>
    ELSE IF Head(s) \in Whitespace THEN TrimStart(Tail(s)) ELSE s

RECURSIVE TrimEnd(_)
TrimEnd(s) ==
    IF s = <<>> THEN <<>>
    ELSE IF s[Len(s)] \in Whitespace THEN TrimEnd(SubSeq(s, 1, Len(s) - 1)) ELSE s

\* String.prototype.trim
Trim(s) == TrimEnd(TrimStart(s))

\* String.prototype.split('\n'): the pieces between newlines, at least one
RECURSIVE SplitFrom(_, _)
SplitFrom(s, cur) ==
    IF s = <<>> THEN <<cur>>
    ELSE IF Head(s) = "\n" THEN <<cur>> \o SplitFrom(Tail(s), <<>>)
    ELSE SplitFrom(Tail(s), Append(cur, Head(s)))

SplitLines(s) == SplitFrom(s, <<>>)

\* Array.prototype.join(''), and the += of strings
RECURSIVE Join(_)
Join(ss) == IF ss = <<>> THEN <<>> ELSE Head(ss) \o Join(Tail(ss))

\* escapeHtml: textContent -> innerHTML encodes the markup characters
EscapeChar(c) ==
    IF c = "<" THEN "&lt;"
    ELSE IF c = ">" THEN "&gt;"
    ELSE IF c = "&" THEN "&amp;"
    ELSE c

escapeHtml(text) == [i \in 1..Len(text) |-> EscapeChar(text[i])]

\* formatMessageContent: one <p> per line that is not blank, joined
FormatLine(line) ==
    IF Trim(line) # <<>> THEN <<"<p>">> \o escapeHtml(line) \o <<"</p>">> ELSE <<>>

formatMessageContent(content) ==
    LET lines == SplitLines(content)
    IN  Join([i \in 1..Len(lines) |-> FormatLine(lines[i])])

\* what the browser shows for an innerHTML: tags dropped, entities decoded
UnescapeToken(t) ==
    IF t = "&lt;" THEN <<"<">>
    ELSE IF t = "&gt;" THEN <<">">>
    ELSE IF t = "&amp;" THEN <<"&">>
    ELSE IF t \in {"<p>", "</p>"} THEN <<>>
    ELSE <<t>>

TextContent(html) == Join([i \in 1..Len(html) |-> UnescapeToken(html[i])])

IsPrefix(s, t) == Len(s) <= Len(t) /\ SubSeq(t, 1, Len(s)) = s

\* Date.prototype.toISOString: a Date (ms) as its ISO string, one per instant
toISOString(t) == [iso |-> t]


\* ------------------------------------------------------------- JS values
\* values a health body field (and so state.isHealthy) can hold
JSValues == {"true", "false", "undefined"}

Truthy(v) == v = "true"

\* a && b: a when a is falsy, else b
JSAnd(a, b) == IF Truthy(a) THEN b ELSE a

JSBool(b) == IF b THEN "true" ELSE "false"

\* ---------------------------------------------------------------- inputs
\* what the user can have typed into the message box
Texts == {<<>>, <<" ">>, <<" ", "a", " ">>}

\* text fragments a frame can carry ("" is a content field that is empty)
Fragments == {<<"a">>, <<"<", "\n">>, <<>>}

\* One line of the response body.  prefix: the line starts with 'data: '.
\* json: what JSON.parse makes of the payload ("obj": an object, "bad": it
\* throws, "blank": the payload is blank, "none": not a data line).
Line(prefix, json, hasContent, content, done) ==
    [prefix |-> prefix, json |-> json, hasContent |-> hasContent,
     content |-> content, done |-> done]

ContentLine(f) == Line(TRUE, "obj", TRUE, f, FALSE)
DoneLine == Line(TRUE, "obj", FALSE, <<>>, TRUE)
DoneContentLine(f) == Line(TRUE, "obj", TRUE, f, TRUE)
BadLine == Line(TRUE, "bad", FALSE, <<>>, FALSE)
BlankDataLine == Line(TRUE, "blank", FALSE, <<>>, FALSE)
OtherLine == Line(FALSE, "none", FALSE, <<>>, FALSE)

Lines ==
    {ContentLine(f) : f \in Fragments}
        \cup {DoneLine, DoneContentLine(<<"a">>), BadLine, BlankDataLine, OtherLine}

\* A line cut by a chunk boundary arrives as two pieces.  No proper prefix
\* of 'data: {...}' parses, and the rest does not start with 'data: '.
HeadPiece(line) == IF line.prefix THEN BadLine ELSE OtherLine
TailPiece(line) == OtherLine

\* bodies of the health endpoint that parse to an object
HealthBodies ==
    [status : {"healthy", "degraded", "undefined"}, bedrock_configured : JSValues]

\* ----------------------------------------------------------------- state
VARIABLES
    conversationHistory,  \* state.conversationHistory
    isStreaming,          \* state.isStreaming
    isHealthy,            \* state.isHealthy
    messages,             \* children of elements.messagesContainer
    typingIndicator,      \* elements.typingIndicator is shown
    errorToast,           \* the notice elements.errorToast has on display
    statusOnline,         \* elements.statusDot has class 'online'
    streams,              \* running calls of streamChatResponse, with their locals
    healthChecks,         \* running calls of checkHealth, oldest first
    now,                  \* the clock read by new Date()
    chatRequests,         \* chat-stream requests issued so far
    framesDelivered,      \* lines of response bodies delivered so far
    newestOutcome,        \* what the checkHealth call started last has stored
                          \* ("pending" while it runs)
    script                \* the run of the Lambda packaging script

vars == <<conversationHistory, isStreaming, isHealthy, messages,
          typingIndicator, errorToast, statusOnline, streams, healthChecks,
          now, chatRequests, framesDelivered, newestOutcome, script>>

\* ------------------------------------------- the Lambda packaging script
\* limits of the packaging script, in bytes
MAX_LAMBDA_SIZE == 250 * 1024 * 1024
MAX_ZIP_SIZE == 50 * 1024 * 1024

\* a shell variable holding the empty string, and one holding a number
ShellEmpty == [empty |-> TRUE, value |-> 0]
ShellNum(n) == [empty |-> FALSE, value |-> n]

\* sizes stat can report for the ZIP file
ZipSizes == {0, 1, MAX_ZIP_SIZE, MAX_ZIP_SIZE + 1}

\* totals the last line of unzip -l can report
UnzippedSizes == {0, 1, MAX_LAMBDA_SIZE, MAX_LAMBDA_SIZE + 1}

\* the packaging script has not been run
NotRun ==
    [pc |-> "notRun", packageDir |-> FALSE, created |-> FALSE, zipFile |-> FALSE,
     AWS_CLI_AVAILABLE |-> FALSE, FILESIZE_BYTES |-> ShellEmpty,
     UNZIP_OUTPUT |-> "none", UNZIPPED_SIZE |-> 0, UPLOAD_METHOD |-> "unset",
     banner |-> FALSE, exitStatus |-> 0]

\* no notice on display
NoToast == "none"

\* (variant) the session starts out believing the backend healthy
InitHealthy ==
    /\ conversationHistory = <<>>
    /\ isStreaming = FALSE
    /\ isHealthy = "true"
    /\ messages = <<>>
    /\ typingIndicator = FALSE
    /\ errorToast = NoToast
    /\ statusOnline = FALSE
    /\ streams = {}
    /\ healthChecks = <<"fetch">>
    /\ now = 0
    /\ chatRequests = 0
    /\ framesDelivered = 0
    /\ newestOutcome = "pending"
    /\ script = NotRun

\* ChatState constructor, then initializeChat: the first checkHealth() is
\* already waiting for its fetch
Init ==
    /\ conversationHistory = <<>>
    /\ isStreaming = FALSE
    /\ isHealthy = "false"
    /\ messages = <<>>
    /\ typingIndicator = FALSE
    /\ errorToast = NoToast
    /\ statusOnline = FALSE
    /\ streams = {}
    /\ healthChecks = <<"fetch">>
    /\ now = 0
    /\ chatRequests = 0
    /\ framesDelivered = 0
    /\ newestOutcome = "pending"
    /\ script = NotRun

\* ------------------------------------------------------------- ChatState
Message(role, content, timestamp) ==
    [role |-> role, content |-> content, timestamp |-> toISOString(timestamp)]

\* (variant) the new message is put in front (unshift)
addMessageInFront(history, role, content, timestamp) ==
    <<Message(role, content, timestamp)>> \o history

\* ChatState.addMessage
addMessage(history, role, content, timestamp) ==
    Append(history, Message(role, content, timestamp))

\* ChatState.getHistory: a copy
getHistory(history) == history

\* ------------------------------------------------------------------- DOM
Element(id, role, content) ==
    [id |-> id, role |-> role, html |-> formatMessageContent(content)]

\* showError
showError(message) == message

\* 'Sorry, I encountered an error. Please try again.'
FallbackText == <<"S", "o", "r", "r", "y">>

\* ------------------------------------------------------ handleSendMessage
\* the three early returns of handleSendMessage, in the order of the code
IsEmptyMessage(message) == message = <<>>

\* (variant) the isStreaming test is missing
IsBusyNever(streaming) == FALSE

IsBusy(streaming) == streaming

\* (variant) the isHealthy test is missing
IsOfflineNever(healthy) == FALSE

IsOffline(healthy) == ~Truthy(healthy)

\* (variant) a send while streaming is let through when the backend is healthy
SendDecisionQueues(message, streaming, healthy) ==
    IF message = <<>> THEN "empty"
    ELSE IF ~Truthy(healthy) THEN "offline"
    ELSE "send"

\* which return of handleSendMessage is taken ("send": none of the early ones)
SendDecision(message, streaming, healthy) ==
    IF IsEmptyMessage(message) THEN "empty"
    ELSE IF IsBusy(streaming) THEN "busy"
    ELSE IF IsOffline(healthy) THEN "offline"
    ELSE "send"

\* (variant) the busy return shows no notice
SendNoticeSilent(decision) ==
    IF decision = "offline"
    THEN "Backend is offline. Please check your connection."
    ELSE "none"

\* the notice an early return passes to showError (NoToast: none)
SendNotice(decision) ==
    IF decision = "busy" THEN showError("Please wait for the current response to complete")
    ELSE IF decision = "offline"
    THEN showError("Backend is offline. Please check your connection.")
    ELSE NoToast

\* (variant) the request body is built before the user message is appended
ChatRequestBeforeAppend(message, history) ==
    [message |-> message,
     conversation_history |-> SubSeq(history, 1, Len(history) - 1),
     use_knowledge_base |-> TRUE]

\* (variant) only the message of this send is passed as the history
ChatRequestLastOnly(message, history) ==
    [message |-> message,
     conversation_history |-> SubSeq(history, Len(history), Len(history)),
     use_knowledge_base |-> TRUE]

\* the request fetch is called with
ChatRequest(message, history) ==
    [message |-> message,
     conversation_history |-> getHistory(history),
     use_knowledge_base |-> TRUE]

\* the locals of streamChatResponse at its first await, the request issued
NewStream(id, message, history, startTime) ==
    [id |-> id, pc |-> "fetch", message |-> message, startTime |-> startTime,
     request |-> ChatRequest(message, history),
     streamedContent |-> <<>>, hasElement |-> FALSE, html |-> <<>>,
     cut |-> FALSE,
     \* what the body has carried and what the loop has done with it
     sent |-> <<>>, applied |-> <<>>, markerSeen |-> FALSE, markerContent |-> <<>>,
     \* for each payload that did not parse: how many fragments were applied before
     skipped |-> <<>>,
     \* the content fields of the frames that carried a completion marker
     withheld |-> <<>>]

\* the history after state.addMessage('user', message)
WithUserMessage(history, message, time) == addMessage(history, "user", message, time)

\* handleSendMessage on the text in the message box, and streamChatResponse
\* up to its fetch (an accepted send empties the box)
HandleSendMessage(text) ==
    LET message == Trim(text)
        decision == SendDecision(message, isStreaming, isHealthy)
        history == WithUserMessage(conversationHistory, message, now)
    IN  IF decision # "send"
        THEN /\ errorToast' = IF SendNotice(decision) = NoToast THEN errorToast
                              ELSE SendNotice(decision)
             /\ UNCHANGED <<conversationHistory, isStreaming, isHealthy, messages,
                            typingIndicator, statusOnline, streams, healthChecks, now,
                            chatRequests, framesDelivered, newestOutcome, script>>
        ELSE /\ chatRequests < MaxSends
             /\ conversationHistory' = history
             /\ messages' = Append(messages, Element(0, "user", message))
             /\ typingIndicator' = TRUE
             /\ isStreaming' = TRUE
             /\ chatRequests' = chatRequests + 1
             /\ streams' = streams \cup {NewStream(chatRequests + 1, message, history, now)}
             /\ UNCHANGED <<isHealthy, errorToast, statusOnline, healthChecks, now,
                            framesDelivered, newestOutcome, script>>

\* ---------------------------------------------------- streamChatResponse
\* (variant) the fragment is put in front
PrependFragment(streamedContent, fragment) == fragment \o streamedContent

\* streamedContent += parsed.content
AppendFragment(streamedContent, fragment) == streamedContent \o fragment

\* (variant) a frame that carries content is not taken for a marker
IsDoneFrameWithoutContent(line) == line.done /\ ~line.hasContent

\* if (parsed.done): the frame is a completion marker
IsDoneFrame(line) == line.done

\* if (parsed.content): the frame carries a fragment that is not empty
HasFragment(line) == line.hasContent /\ line.content # <<>>

\* a fragment applied: accumulated, then the element created or updated
ApplyFragment(loc, fragment) ==
    LET content == AppendFragment(loc.streamedContent, fragment)
    IN  [loc EXCEPT !.streamedContent = content,
                    !.hasElement = TRUE,
                    !.html = formatMessageContent(content),
                    !.applied = Append(@, fragment)]

\* (variant) a payload that does not parse ends the call like a failed read
\* would: what was accumulated is dropped
SkipFrameTruncates(loc) ==
    [loc EXCEPT !.skipped = Append(@, Len(loc.applied)), !.streamedContent = <<>>]

\* the inner catch: the error is logged, the loop goes on with the next line
SkipFrame(loc) == [loc EXCEPT !.skipped = Append(@, Len(loc.applied))]

\* the body of the for loop, for one line of the chunk
ProcessLine(loc, line) ==
    IF ~line.prefix THEN loc
    ELSE IF line.json = "blank" THEN loc
    ELSE IF line.json = "bad" THEN SkipFrame(loc)
    ELSE IF IsDoneFrame(line)
    THEN [loc EXCEPT !.markerSeen = TRUE,
                     !.markerContent = IF loc.markerSeen THEN @ ELSE loc.streamedContent,
                     !.withheld = @ \o line.content]
    ELSE IF HasFragment(line) THEN ApplyFragment(loc, line.content)
    ELSE loc

\* for (const line of lines)
RECURSIVE ProcessLines(_, _)
ProcessLines(loc, lines) ==
    IF lines = <<>> THEN loc
    ELSE ProcessLines(ProcessLine(loc, Head(lines)), Tail(lines))

\* a well-formed content frame, as the server sent it: a data line whose
\* payload is an object with a content field and no completion marker
IsContentFrame(line) == line.prefix /\ line.json = "obj" /\ line.hasContent /\ ~line.done

\* the content fields of the content frames among lines, concatenated
RECURSIVE ContentFields(_)
ContentFields(lines) ==
    IF lines = <<>> THEN <<>>
    ELSE IF IsContentFrame(Head(lines))
    THEN Head(lines).content \o ContentFields(Tail(lines))
    ELSE ContentFields(Tail(lines))

\* the message element of stream id, as the container shows it after the chunk
ShowElement(container, old, new) ==
    IF ~new.hasElement THEN container
    ELSE IF ~old.hasElement
    THEN Append(container, [id |-> new.id, role |-> "assistant", html |-> new.html])
    ELSE [i \in 1..Len(container) |->
            IF container[i].id = new.id THEN [container[i] EXCEPT !.html = new.html]
            ELSE container[i]]

\* (variant) there is no finally: isStreaming stays set after a failure
StreamFailsNoFinally(s) ==
    /\ typingIndicator' = FALSE
    /\ errorToast' = showError("Failed to get response")
    /\ messages' = Append(messages, Element(0, "assistant", FallbackText))
    /\ streams' = streams \ {s}
    /\ UNCHANGED <<conversationHistory, isStreaming, isHealthy, statusOnline,
                   healthChecks, now, chatRequests, framesDelivered, newestOutcome, script>>

\* (variant) the catch issues the request again
StreamFailsRetries(s) ==
    /\ typingIndicator' = FALSE
    /\ errorToast' = showError("Failed to get response")
    /\ messages' = Append(messages, Element(0, "assistant", FallbackText))
    /\ chatRequests' = chatRequests + 1
    /\ streams' = (streams \ {s})
                    \cup {NewStream(chatRequests + 1, s.message, conversationHistory, now)}
    /\ UNCHANGED <<conversationHistory, isStreaming, isHealthy, statusOnline,
                   healthChecks, now, framesDelivered, newestOutcome, script>>

\* (variant) the catch takes the element of the partial answer off display
StreamFailsDropsPartial(s) ==
    /\ typingIndicator' = FALSE
    /\ errorToast' = showError("Failed to get response")
    /\ messages' = Append(SelectSeq(messages, LAMBDA e : e.id # s.id),
                          Element(0, "assistant", FallbackText))
    /\ isStreaming' = FALSE
    /\ streams' = streams \ {s}
    /\ UNCHANGED <<conversationHistory, isHealthy, statusOnline,
                   healthChecks, now, chatRequests, framesDelivered, newestOutcome, script>>

\* (variant) the catch also records the fallback text in the history
StreamFailsAddsToHistory(s) ==
    /\ typingIndicator' = FALSE
    /\ errorToast' = showError("Failed to get response")
    /\ messages' = Append(messages, Element(0, "assistant", FallbackText))
    /\ conversationHistory' = addMessage(conversationHistory, "assistant", FallbackText, now)
    /\ isStreaming' = FALSE
    /\ streams' = streams \ {s}
    /\ UNCHANGED <<isHealthy, statusOnline, healthChecks, now, chatRequests,
                   framesDelivered, newestOutcome, script>>

\* the catch block and the finally (the notice's error.message is left out)
StreamFails(s) ==
    /\ typingIndicator' = FALSE
    /\ errorToast' = showError("Failed to get response")
    /\ messages' = Append(messages, Element(0, "assistant", FallbackText))
    /\ isStreaming' = FALSE
    /\ streams' = streams \ {s}
    /\ UNCHANGED <<conversationHistory, isHealthy, statusOnline,
                   healthChecks, now, chatRequests, framesDelivered, newestOutcome, script>>

\* (variant) the status of the response is not looked at
ResponseAcceptedAlways(ok) == TRUE

\* if (!response.ok) throw ...: the response goes on to be read when ok
ResponseAccepted(ok) == ok

\* await fetch(...) resolves with a response, ok (2xx) or not: the reader is
\* taken and the typing indicator hidden; or the throw, caught
FetchResponds(s, ok) ==
    IF ResponseAccepted(ok)
    THEN /\ typingIndicator' = FALSE
         /\ streams' = (streams \ {s}) \cup {[s EXCEPT !.pc = "read"]}
         /\ UNCHANGED <<conversationHistory, isStreaming, isHealthy,
                        messages, errorToast, statusOnline, healthChecks, now,
                        chatRequests, framesDelivered, newestOutcome, script>>
    ELSE StreamFails(s)

\* await fetch(...) rejects (the network is unreachable)
FetchRejects(s) == StreamFails(s)

\* await fetch(...) settles
FetchSettles ==
    \E s \in streams :
        /\ s.pc = "fetch"
        /\ \/ \E ok \in BOOLEAN : FetchResponds(s, ok)
           \/ FetchRejects(s)

\* the sequences of at most n lines
LineSeqs(n) == UNION {[1..k -> Lines] : k \in 0..n}

\* the lines a chunk boundary can cut
CutLines == {line \in Lines : line.prefix}

\* chunk.split('\n'): the lines the loop gets for a chunk that ends the line
\* a boundary cut before (if any), carries the lines whole, and carries the
\* head of the line cutLine holds (if any)
ChunkPieces(s, whole, cutLine) ==
    (IF s.cut THEN <<TailPiece(OtherLine)>> ELSE <<>>)
        \o whole
        \o [i \in 1..Len(cutLine) |-> HeadPiece(cutLine[i])]

\* await reader.read() yields a chunk: the rest of a cut line, whole lines,
\* and possibly the head of a line the chunk boundary cuts
ChunkArrives(s, whole, cutLine) ==
    LET body == whole \o cutLine
        pieces == ChunkPieces(s, whole, cutLine)
        arrived == [s EXCEPT !.cut = cutLine # <<>>,
                             !.sent = @ \o ContentFields(body)]
        after == ProcessLines(arrived, pieces)
    IN  /\ pieces # <<>>
        /\ framesDelivered' = framesDelivered + Len(body)
        /\ streams' = (streams \ {s}) \cup {after}
        /\ messages' = ShowElement(messages, s, after)
        /\ UNCHANGED <<conversationHistory, isStreaming, isHealthy,
                       typingIndicator, errorToast, statusOnline, healthChecks,
                       now, chatRequests, newestOutcome, script>>

\* the chunks that keep the lines delivered in the run within budget
Chunks(budget) ==
    {c \in LineSeqs(budget - framesDelivered)
            \X ({<<>>} \cup {<<line>> : line \in CutLines}) :
        framesDelivered + Len(c[1]) + Len(c[2]) <= budget}

ReadChunkOf(budget) ==
    \E s \in streams :
        /\ s.pc = "read"
        /\ \E c \in Chunks(budget) : ChunkArrives(s, c[1], c[2])

ReadChunk == ReadChunkOf(MaxFrames)

\* (variant) the message is stamped with the instant of the commit
CommittedMessageStampedNow(s, time) == Message("assistant", s.streamedContent, time)

\* the message state.addMessage('assistant', streamedContent, startTime)
\* appends; time is the clock at the commit
CommittedMessage(s, time) == Message("assistant", s.streamedContent, s.startTime)

\* await reader.read() yields done: the message is committed, then the finally
ReadDone ==
    \E s \in streams :
        /\ s.pc = "read"
        /\ ~s.cut
        /\ conversationHistory' = Append(conversationHistory, CommittedMessage(s, now))
        /\ isStreaming' = FALSE
        /\ streams' = streams \ {s}
        /\ UNCHANGED <<isHealthy, messages, typingIndicator, errorToast,
                       statusOnline, healthChecks, now, chatRequests, framesDelivered, newestOutcome, script>>

\* await reader.read() rejects
ReadFails ==
    \E s \in streams :
        /\ s.pc = "read"
        /\ StreamFails(s)


\* ------------------------------------------------------------ checkHealth
RemoveAt(seq, i) == SubSeq(seq, 1, i - 1) \o SubSeq(seq, i + 1, Len(seq))

\* data.bedrock_configured && data.status === 'healthy'
HealthOf(data) == JSAnd(data.bedrock_configured, JSBool(data.status = "healthy"))

\* what the call started last has stored, once the call i has stored outcome:
\* the calls that run are kept oldest first, so the one started last is the
\* last of them for as long as it runs
OutcomeOfNewest(i, outcome) ==
    IF newestOutcome = "pending" /\ i = Len(healthChecks) THEN outcome
    ELSE newestOutcome

\* setInterval(checkHealth, ...) fires with fewer than bound calls running:
\* checkHealth up to its fetch
CheckHealthOf(bound) ==
    /\ Len(healthChecks) < bound
    /\ healthChecks' = Append(healthChecks, "fetch")
    /\ newestOutcome' = "pending"
    /\ UNCHANGED <<conversationHistory, isStreaming, isHealthy, messages,
                   typingIndicator, errorToast, statusOnline, streams, now,
                   chatRequests, framesDelivered, script>>

CheckHealth == CheckHealthOf(MaxPendingHealth)

\* (variant) a failed check also gives up the response being streamed
HealthFailsStopsStream(i) ==
    /\ statusOnline' = FALSE
    /\ isHealthy' = "false"
    /\ healthChecks' = RemoveAt(healthChecks, i)
    /\ isStreaming' = FALSE
    /\ streams' = {}
    /\ newestOutcome' = OutcomeOfNewest(i, "false")
    /\ UNCHANGED <<conversationHistory, messages, typingIndicator, errorToast,
                   now, chatRequests, framesDelivered, script>>

\* (variant) there is no catch: the call ends by a rejection nobody handles
HealthFailsRethrows(i) ==
    /\ healthChecks' = [healthChecks EXCEPT ![i] = "rejected"]
    /\ UNCHANGED <<conversationHistory, isStreaming, isHealthy, messages,
                   typingIndicator, errorToast, statusOnline, streams, now,
                   chatRequests, framesDelivered, newestOutcome, script>>

\* the catch block of checkHealth
HealthFails(i) ==
    /\ statusOnline' = FALSE
    /\ isHealthy' = "false"
    /\ healthChecks' = RemoveAt(healthChecks, i)
    /\ newestOutcome' = OutcomeOfNewest(i, "false")
    /\ UNCHANGED <<conversationHistory, isStreaming, messages,
                   typingIndicator, errorToast, streams, now, chatRequests, framesDelivered, script>>

\* await fetch(health) settles
HealthFetchSettles ==
    \E i \in 1..Len(healthChecks) :
        /\ healthChecks[i] = "fetch"
        /\ \/ /\ healthChecks' = [healthChecks EXCEPT ![i] = "json"]
              /\ UNCHANGED <<conversationHistory, isStreaming, isHealthy,
                             messages, typingIndicator, errorToast, statusOnline,
                             streams, now, chatRequests, framesDelivered, newestOutcome, script>>
           \/ HealthFails(i)

\* the rest of the try block, for the object data the body parsed to
HealthCompletes(i, data) ==
    /\ statusOnline' = Truthy(HealthOf(data))
    /\ isHealthy' = HealthOf(data)
    /\ healthChecks' = RemoveAt(healthChecks, i)
    /\ newestOutcome' = OutcomeOfNewest(i, HealthOf(data))
    /\ UNCHANGED <<conversationHistory, isStreaming, messages,
                   typingIndicator, errorToast, streams, now, chatRequests, framesDelivered, script>>

\* await response.json() settles: an object, or a body that does not parse
\* (or parses to null, whose field access throws)
HealthJsonSettles ==
    \E i \in 1..Len(healthChecks) :
        /\ healthChecks[i] = "json"
        /\ \/ \E data \in HealthBodies : HealthCompletes(i, data)
           \/ HealthFails(i)

\* -------------------------------------------------------- handleClearChat
\* (variant) the last message survives the clear
clearHistoryButLast(history) ==
    IF history = <<>> THEN <<>> ELSE <<history[Len(history)]>>

\* ChatState.clearHistory
clearHistory(history) == <<>>

\* handleClearChat, for the answer given to the confirm dialog
ClearChat(confirmed) ==
    /\ conversationHistory' = IF confirmed THEN clearHistory(conversationHistory)
                               ELSE conversationHistory
    /\ messages' = IF confirmed THEN <<>> ELSE messages
    /\ UNCHANGED <<isStreaming, isHealthy, typingIndicator, errorToast,
                   statusOnline, streams, healthChecks, now, chatRequests, framesDelivered, newestOutcome, script>>

HandleClearChat == \E confirmed \in BOOLEAN : ClearChat(confirmed)

\* ------------------------------------------------------------ environment
\* the setTimeout of showError fires
HideToast ==
    /\ errorToast # NoToast
    /\ errorToast' = NoToast
    /\ UNCHANGED <<conversationHistory, isStreaming, isHealthy, messages,
                   typingIndicator, statusOnline, streams, healthChecks, now,
                   chatRequests, framesDelivered, newestOutcome, script>>

\* (variant) a call that has run for an instant is given up
TickWithTimeout ==
    /\ now < MaxClock
    /\ now' = now + 1
    /\ isStreaming' = FALSE
    /\ streams' = {}
    /\ UNCHANGED <<conversationHistory, isHealthy, messages,
                   typingIndicator, errorToast, statusOnline, healthChecks,
                   chatRequests, framesDelivered, newestOutcome, script>>

\* time passes
Tick ==
    /\ now < MaxClock
    /\ now' = now + 1
    /\ UNCHANGED <<conversationHistory, isStreaming, isHealthy, messages,
                   typingIndicator, errorToast, statusOnline, streams, healthChecks,
                   chatRequests, framesDelivered, newestOutcome, script>>

Next ==
    \/ \E text \in Texts : HandleSendMessage(text)
    \/ FetchSettles
    \/ ReadChunk
    \/ ReadDone
    \/ ReadFails
    \/ CheckHealth
    \/ HealthFetchSettles
    \/ HealthJsonSettles
    \/ HandleClearChat
    \/ HideToast
    \/ Tick

Spec == Init /\ [][Next]_vars

\* the network settles every fetch and every read
LiveSpec ==
    /\ Spec
    /\ WF_vars(FetchSettles)
    /\ WF_vars(ReadDone \/ ReadFails)

\* One send and its response body, read to the end: the session without the
\* timer, the clock and the clear button, the body up to MaxStreamFrames lines.
StreamNext ==
    \/ \E text \in Texts : chatRequests = 0 /\ HandleSendMessage(text)
    \/ FetchSettles
    \/ ReadChunkOf(MaxStreamFrames)
    \/ ReadDone
    \/ ReadFails
    \/ HealthFetchSettles
    \/ HealthJsonSettles

StreamSpec == Init /\ [][StreamNext]_vars

\* The health checks of a session with one send: the timer may fire again
\* before the calls of checkHealth it started earlier have completed, up to
\* MaxOverlap of them running at once.
HealthNext ==
    \/ CheckHealthOf(MaxOverlap)
    \/ HealthFetchSettles
    \/ HealthJsonSettles
    \/ \E text \in Texts : chatRequests = 0 /\ HandleSendMessage(text)
    \/ FetchSettles
    \/ ReadDone
    \/ ReadFails
    \/ HideToast

HealthSpec == Init /\ [][HealthNext]_vars

\* ------------------------------------------- the Lambda packaging script
\* the variables of the chat page, which the script does not touch
chatVars == <<conversationHistory, isStreaming, isHealthy, messages,
              typingIndicator, errorToast, statusOnline, streams, healthChecks,
              now, chatRequests, framesDelivered, newestOutcome>>

\* exit N
exit(s, status) == [s EXCEPT !.pc = "exited", !.exitStatus = status]

\* the ERR trap: a command outside a condition has failed under set -e
cleanup_on_error(s) == exit([s EXCEPT !.packageDir = FALSE], 1)

\* (variant) [ a -ge b ]
ge(a, b) == a >= b

\* [ a -gt b ]
gt(a, b) == a > b

\* the script is started from the project root; backend/package may be left
\* over from an earlier run
StartScript ==
    /\ script.pc = "notRun"
    /\ \E leftover \in BOOLEAN :
           script' = [script EXCEPT !.pc = "checks", !.packageDir = leftover]
    /\ UNCHANGED chatVars

\* "Running pre-deployment checks": a missing file or tool ends the script
\* with a plain exit 1; python3 --version failing fires the trap
PreDeploymentChecks ==
    /\ script.pc = "checks"
    /\ \E outcome \in {"passed", "missing", "error"}, aws \in BOOLEAN :
           script' =
               CASE outcome = "passed" ->
                        [script EXCEPT !.pc = "cleanOld", !.AWS_CLI_AVAILABLE = aws]
                 [] outcome = "missing" -> exit(script, 1)
                 [] outcome = "error" -> cleanup_on_error(script)
    /\ UNCHANGED chatVars

\* Step 1: rm -rf "$PACKAGE_DIR"; rm -f "$ZIP_FILE"
CleanUpOldPackage ==
    /\ script.pc = "cleanOld"
    /\ \E ok \in BOOLEAN :
           script' =
               IF ok
               THEN [script EXCEPT !.pc = "mkdir", !.packageDir = FALSE,
                                   !.zipFile = FALSE]
               ELSE cleanup_on_error(script)
    /\ UNCHANGED chatVars

\* Step 2: mkdir -p "$PACKAGE_DIR"
CreatePackageDirectory ==
    /\ script.pc = "mkdir"
    /\ \E ok \in BOOLEAN :
           script' =
               IF ok
               THEN [script EXCEPT !.pc = "install", !.packageDir = TRUE,
                                   !.created = TRUE]
               ELSE cleanup_on_error(script)
    /\ UNCHANGED chatVars

\* Step 3, the else branch of "if pip3 install ... | tee ...": exit 1
InstallFails(s) == exit(s, 1)

\* Step 3: mktemp, pip3 install into the package directory, removal of
\* tests, caches and metadata
InstallDependencies ==
    /\ script.pc = "install"
    /\ \E outcome \in {"installed", "pipFailed", "error"} :
           script' =
               CASE outcome = "installed" -> [script EXCEPT !.pc = "copy"]
                 [] outcome = "pipFailed" -> InstallFails(script)
                 [] outcome = "error" -> cleanup_on_error(script)
    /\ UNCHANGED chatVars

\* Step 4: cp of the application code, outside any condition
CopyApplicationCode ==
    /\ script.pc = "copy"
    /\ \E ok \in BOOLEAN :
           script' =
               IF ok THEN [script EXCEPT !.pc = "zip"] ELSE cleanup_on_error(script)
    /\ UNCHANGED chatVars

\* Step 5: cd "$PACKAGE_DIR"; if zip ...; else cd ../..; exit 1
CreateDeploymentZip ==
    /\ script.pc = "zip"
    /\ \E outcome \in {"zipped", "zipFailed", "error"} :
           script' =
               CASE outcome = "zipped" ->
                        [script EXCEPT !.pc = "fileSize", !.zipFile = TRUE]
                 [] outcome = "zipFailed" -> exit(script, 1)
                 [] outcome = "error" -> cleanup_on_error(script)
    /\ UNCHANGED chatVars

\* Step 6, FILESIZE_BYTES=$(get_file_size "$ZIP_FILE"): stat prints the size,
\* or fails, and the failed assignment fires the trap
GetFileSize ==
    /\ script.pc = "fileSize"
    /\ \/ \E size \in ZipSizes :
              script' = [script EXCEPT !.pc = "unzipped",
                                       !.FILESIZE_BYTES = ShellNum(size)]
       \/ script' = cleanup_on_error(script)
    /\ UNCHANGED chatVars

\* the unzipped size validation for a listing unzip -l has printed
SizeValidated(s, size) ==
    IF gt(size, 0) /\ gt(size, MAX_LAMBDA_SIZE)
    THEN exit([s EXCEPT !.UNZIP_OUTPUT = "listed", !.UNZIPPED_SIZE = size], 1)
    ELSE [s EXCEPT !.pc = "upload", !.UNZIP_OUTPUT = "listed",
                   !.UNZIPPED_SIZE = size]

\* Step 6, "Try to get unzipped size": unzip -l lists the archive or fails
\* (it fails on a file of 0 bytes)
ValidateUnzippedSize ==
    /\ script.pc = "unzipped"
    /\ \/ \E size \in UnzippedSizes :
              /\ script.FILESIZE_BYTES.value > 0
              /\ script' = SizeValidated(script, size)
       \/ script' = [script EXCEPT !.pc = "upload", !.UNZIP_OUTPUT = "failed"]
    /\ UNCHANGED chatVars

\* "Determine upload method"
UploadMethod(filesize) ==
    IF ~filesize.empty /\ gt(filesize.value, 0)
    THEN IF gt(filesize.value, MAX_ZIP_SIZE) THEN "S3" ELSE "DIRECT"
    ELSE "UNKNOWN"

DetermineUploadMethod ==
    /\ script.pc = "upload"
    /\ script' = [script EXCEPT !.pc = "banner",
                                !.UPLOAD_METHOD = UploadMethod(script.FILESIZE_BYTES)]
    /\ UNCHANGED chatVars

\* the file count and "Deployment package created successfully!"
PrintSuccessBanner ==
    /\ script.pc = "banner"
    /\ script' = [script EXCEPT !.pc = "instructions", !.banner = TRUE]
    /\ UNCHANGED chatVars

\* the deployment instructions: with a direct upload and the AWS CLI the
\* script asks with read, which fails at the end of its input and fires the
\* trap; the outcome of the deployment itself is only printed
ShowInstructions ==
    /\ script.pc = "instructions"
    /\ \E answered \in BOOLEAN :
           script' =
               IF /\ script.UPLOAD_METHOD = "DIRECT"
                  /\ script.AWS_CLI_AVAILABLE
                  /\ ~answered
               THEN cleanup_on_error(script)
               ELSE [script EXCEPT !.pc = "cleanup"]
    /\ UNCHANGED chatVars

\* "Cleaning up temporary files": rm -rf "$PACKAGE_DIR", and the script ends
FinalCleanup ==
    /\ script.pc = "cleanup"
    /\ script' = exit([script EXCEPT !.packageDir = FALSE], 0)
    /\ UNCHANGED chatVars

\* one run of the packaging script
DeployNext ==
    \/ StartScript
    \/ PreDeploymentChecks
    \/ CleanUpOldPackage
    \/ CreatePackageDirectory
    \/ InstallDependencies
    \/ CopyApplicationCode
    \/ CreateDeploymentZip
    \/ GetFileSize
    \/ ValidateUnzippedSize
    \/ DetermineUploadMethod
    \/ PrintSuccessBanner
    \/ ShowInstructions
    \/ FinalCleanup

DeploySpec == Init /\ [][DeployNext]_vars

\* ================================================================ claims
BusyNotice == "Please wait for the current response to complete"
OfflineNotice == "Backend is offline. Please check your connection."
FailureNotice == "Failed to get response"

Last(seq) == seq[Len(seq)]

\* the step ends the call s of streamChatResponse by a commit
StreamCommits(s) ==
    /\ \A t \in streams' : t.id # s.id
    /\ Len(conversationHistory') = Len(conversationHistory) + 1

\* ------------------------------------------------------------------- C1
\* C1: in every reachable state at most one chat-stream request is
\* outstanding, whatever the interleaving of sends, health checks and clears.
C1_AtMostOneOutstanding == Cardinality(streams) <= 1

\* a send was rejected while a request was outstanding, which still is
C1_Witness ==
    /\ Cardinality(streams) = 1
    /\ errorToast = BusyNotice
    /\ chatRequests = 1

\* ------------------------------------------------------------------- C2
\* C2: handleSendMessage with text that is not empty after trimming, run
\* while isStreaming is true, issues no request and leaves the history as
\* it was.
C2_BusySendChangesNothing ==
    [][\A text \in Texts :
          (isStreaming /\ Trim(text) # <<>> /\ HandleSendMessage(text))
              => /\ chatRequests' = chatRequests
                 /\ streams' = streams
                 /\ conversationHistory' = conversationHistory]_vars

\* a send was rejected while the body was being read; one request, one message
C2_Witness ==
    /\ isStreaming
    /\ errorToast = BusyNotice
    /\ \E s \in streams : s.pc = "read"
    /\ Len(conversationHistory) = 1

\* ------------------------------------------------------------------- C3
\* C3: handleSendMessage with text that is empty after trimming, or run
\* while isHealthy is falsy, issues no request and leaves history,
\* isStreaming and isHealthy as they were.
C3_RejectedSendIsNoOp ==
    [][\A text \in Texts :
          ((Trim(text) = <<>> \/ ~Truthy(isHealthy)) /\ HandleSendMessage(text))
              => /\ chatRequests' = chatRequests
                 /\ streams' = streams
                 /\ conversationHistory' = conversationHistory
                 /\ isStreaming' = isStreaming
                 /\ isHealthy' = isHealthy]_vars

\* a send was rejected for the backend being offline; nothing was ever sent
C3_Witness ==
    /\ errorToast = OfflineNotice
    /\ chatRequests = 0
    /\ conversationHistory = <<>>
    /\ ~isStreaming

\* ------------------------------------------------------------------- C4
\* C4 as stated: each of the three rejections (text empty after trimming,
\* isStreaming true, isHealthy falsy) passes a notice to showError.
C4_EveryRejectionNotifies ==
    \A text \in Texts :
        LET decision == SendDecision(Trim(text), isStreaming, isHealthy)
        IN  decision # "send" => SendNotice(decision) # NoToast

\* C4 as amended: a send rejected because isStreaming is true or because
\* isHealthy is falsy (its text not empty after trimming) puts its notice on
\* display; a send whose text is empty after trimming returns silently, the
\* display as it was.
C4_BusyAndOfflineNotify ==
    /\ [](\A text \in Texts :
            LET decision == SendDecision(Trim(text), isStreaming, isHealthy)
            IN  /\ decision = "busy" => SendNotice(decision) = BusyNotice
                /\ decision = "offline" => SendNotice(decision) = OfflineNotice
                /\ decision = "empty" => SendNotice(decision) = NoToast)
    /\ [][\A text \in Texts :
            HandleSendMessage(text) =>
                /\ (Trim(text) # <<>> /\ isStreaming) => errorToast' = BusyNotice
                /\ (Trim(text) # <<>> /\ ~isStreaming /\ ~Truthy(isHealthy))
                      => errorToast' = OfflineNotice
                /\ Trim(text) = <<>> => errorToast' = errorToast]_vars

\* the busy notice is on display while the request still awaits its response
C4_Witness ==
    /\ errorToast = BusyNotice
    /\ typingIndicator
    /\ \E s \in streams : s.pc = "fetch"

\* ------------------------------------------------------------------- C5
\* C5: an accepted send (text not empty after trimming, isStreaming false,
\* isHealthy true) appends exactly one user Message, whose content is the
\* trimmed text, to the end of the history, and the request it issues
\* already carries that message.
C5_AcceptedSendAppendsUserMessage ==
    [][\A text \in Texts :
          (Trim(text) # <<>> /\ ~isStreaming /\ Truthy(isHealthy) /\ HandleSendMessage(text))
              => /\ Len(conversationHistory') = Len(conversationHistory) + 1
                 /\ SubSeq(conversationHistory', 1, Len(conversationHistory))
                        = conversationHistory
                 /\ Last(conversationHistory').role = "user"
                 /\ Last(conversationHistory').content = Trim(text)
                 /\ chatRequests' = chatRequests + 1
                 /\ \E s \in streams' \ streams :
                        /\ s.pc = "fetch"
                        /\ s.request.message = Trim(text)
                        /\ s.request.conversation_history = conversationHistory']_vars

\* the text " a " was sent: the message "a" is the last of the history and of
\* the request that awaits its response
C5_Witness ==
    /\ conversationHistory # <<>>
    /\ Last(conversationHistory).role = "user"
    /\ Last(conversationHistory).content = <<"a">>
    /\ \E s \in streams :
          /\ s.pc = "fetch"
          /\ s.request.conversation_history = conversationHistory

\* ------------------------------------------------------------------- C6
\* C6: isStreaming is true for as long as a call of streamChatResponse is
\* running, every step that ends a call (the commit, or the catch after an
\* HTTP error, a rejected fetch or a rejected read) leaves it false, and if
\* the network settles every fetch and read, isStreaming true leads to
\* isStreaming false.
C6_StreamingUntilSettled ==
    /\ [](streams # {} => isStreaming)
    /\ [][Cardinality(streams') < Cardinality(streams) => ~isStreaming']_vars
    /\ (isStreaming ~> ~isStreaming)

\* a send failed and isStreaming is false again
C6_Witness ==
    /\ ~isStreaming
    /\ streams = {}
    /\ chatRequests = 1
    /\ errorToast = FailureNotice

\* ------------------------------------------------------------------- C7
\* C7 as stated: the text the message element shows equals the
\* concatenation of the fragments received so far.
C7_ShownTextIsConcatenation ==
    \A s \in streams : s.hasElement => TextContent(s.html) = Join(s.applied)

\* the lines of text that are not blank, put end to end
NonBlankText(text) ==
    LET lines == SplitLines(text)
        keep == {i \in 1..Len(lines) : \E j \in 1..Len(lines[i]) : lines[i][j] \notin Whitespace}
    IN  Join([i \in 1..Len(lines) |-> IF i \in keep THEN lines[i] ELSE <<>>])

\* C7 as amended: the fragments the loop receives are accumulated in the
\* order received, and after each of them the message element holds the
\* concatenation of the fragments received so far as formatMessageContent
\* renders it: one paragraph per line that is not blank, so that what it
\* shows is the text of those lines (newlines and blank lines are not
\* shown).  The text shown only grows: it is a prefix of the text shown
\* after any later step of the stream.
C7_FragmentsShownInOrder ==
    /\ [](\A s \in streams :
            /\ s.streamedContent = Join(s.applied)
            /\ s.hasElement <=> s.applied # <<>>
            /\ s.hasElement =>
                  /\ s.html = formatMessageContent(Join(s.applied))
                  /\ TextContent(s.html) = NonBlankText(Join(s.applied)))
    /\ [][\A s \in streams : \A t \in streams' :
            s.id = t.id =>
                /\ IsPrefix(s.applied, t.applied)
                /\ IsPrefix(s.streamedContent, t.streamedContent)
                /\ IsPrefix(TextContent(s.html), TextContent(t.html))]_vars

\* two different fragments were applied, the second of them with a newline
C7_Witness ==
    \E s \in streams :
        /\ s.hasElement
        /\ s.applied = << <<"a">>, <<"<", "\n">> >>

\* ------------------------------------------------------------------- C8
\* C8: when a stream ends by end-of-stream, the content of the message
\* committed is the concatenation, in arrival order, of the content fields
\* of all the well-formed content frames of its body.
C8_CommittedIsAllContentFrames ==
    [][\A s \in streams :
          StreamCommits(s) => Last(conversationHistory').content = s.sent]_vars

\* ------------------------------------------------------------------- C9
AssistantCount(history) ==
    Cardinality({i \in 1..Len(history) : history[i].role = "assistant"})

\* C9: the step that ends a stream by end-of-stream appends exactly one
\* assistant Message, stamped with the instant the clock showed when the
\* request was started; no other step adds an assistant Message.
C9_OneMessageStampedAtStart ==
    [][/\ \A s \in streams :
             StreamCommits(s) =>
                 conversationHistory' =
                     Append(conversationHistory,
                            [role |-> "assistant", content |-> s.streamedContent,
                             timestamp |-> toISOString(s.startTime)])
       /\ \A s \in streams' :
             (\A t \in streams : t.id # s.id) => s.startTime = now /\ s.pc = "fetch"
       /\ AssistantCount(conversationHistory') # AssistantCount(conversationHistory)
             => \/ conversationHistory' = <<>>
                \/ /\ \E s \in streams : StreamCommits(s)
                   /\ AssistantCount(conversationHistory')
                          = AssistantCount(conversationHistory) + 1]_vars

\* a message with content was committed with the instant 0 of its request,
\* and the clock has moved on
C9_Witness ==
    /\ conversationHistory # <<>>
    /\ Last(conversationHistory).role = "assistant"
    /\ Last(conversationHistory).content # <<>>
    /\ Last(conversationHistory).timestamp = toISOString(0)
    /\ now = 1

\* ------------------------------------------------------------------ C10
\* C10: once the loop has met a completion marker, no later frame of the
\* stream is applied: the accumulated content stays what it was at the marker.
C10_NothingAppliedAfterMarker ==
    \A s \in streams : s.markerSeen => s.streamedContent = s.markerContent

\* ------------------------------------------------------------------ C11
\* a significant line whose payload does not parse
IsMalformed(line) == line.prefix /\ line.json = "bad"

WithoutMalformed(lines) == SelectSeq(lines, LAMBDA line : ~IsMalformed(line))

\* C11: a chunk whose lines include payloads that do not parse leaves the
\* call reading (no failure path: isStreaming stays true, no notice, no
\* fallback element) and accumulates and shows what the same lines without
\* the malformed ones would; the message committed at end-of-stream is the
\* concatenation of the fragments applied, whatever was skipped in between.
C11_MalformedFramesSkipped ==
    /\ [](\A s \in streams : s.streamedContent = Join(s.applied))
    /\ [][\A s \in streams :
            /\ \A c \in Chunks(MaxStreamFrames) :
                  (s.pc = "read" /\ ChunkArrives(s, c[1], c[2])) =>
                      LET pieces == ChunkPieces(s, c[1], c[2])
                          clean == ProcessLines(s, WithoutMalformed(pieces))
                      IN  /\ isStreaming'
                          /\ errorToast' = errorToast
                          /\ conversationHistory' = conversationHistory
                          /\ \E t \in streams' :
                                /\ t.id = s.id
                                /\ t.pc = "read"
                                /\ t.streamedContent = clean.streamedContent
                                /\ t.applied = clean.applied
                                /\ t.html = clean.html
                                /\ t.hasElement = clean.hasElement
                                /\ Len(t.skipped) - Len(s.skipped)
                                      = Len(pieces) - Len(WithoutMalformed(pieces))
                                /\ messages' = ShowElement(messages, s, t)
            /\ StreamCommits(s) =>
                  Last(conversationHistory').content = Join(s.applied)]_vars

\* a whole line whose payload did not parse came between the fragments "a"
\* and "<\n": both are accumulated and the call is still reading
C11_Witness ==
    /\ isStreaming
    /\ errorToast = NoToast
    /\ \E s \in streams :
          /\ s.pc = "read"
          /\ ~s.cut
          /\ s.applied = << <<"a">>, <<"<", "\n">> >>
          /\ s.skipped = <<1>>
          /\ s.streamedContent = <<"a", "<", "\n">>

\* ------------------------------------------------------------------ C12
\* the step is the failure of a call: its fetch rejects or is answered with
\* an HTTP error, or a read of its body rejects
TransportFailure == (FetchSettles /\ streams' # streams /\ streams' = {}) \/ ReadFails

FallbackElement == [id |-> 0, role |-> "assistant", html |-> formatMessageContent(FallbackText)]

FallbackCount(container) ==
    Cardinality({i \in 1..Len(container) : container[i] = FallbackElement})

C13_PartialContentKept ==
    /\ [](\A s \in streams : \A i \in 1..Len(messages) :
             messages[i].id = s.id =>
                 /\ s.hasElement
                 /\ messages[i].html = formatMessageContent(s.streamedContent))
    /\ [][TransportFailure =>
            /\ Len(messages') = Len(messages) + 1
            /\ SubSeq(messages', 1, Len(messages)) = messages]_vars
    /\ [][\A i \in 1..Len(messages) :
            (\A s \in streams' : s.id # messages[i].id) =>
                \/ messages' = <<>>
                \/ Len(messages') >= i /\ messages'[i] = messages[i]]_vars

\* a read rejected after the fragments "a" and "<\n": the text of both is
\* still on display, before the fallback element, and the session is idle
C13_Witness ==
    /\ ~isStreaming
    /\ streams = {}
    /\ errorToast = FailureNotice
    /\ Len(messages) = 3
    /\ messages[2].id = 1
    /\ messages[2].html = formatMessageContent(<<"a", "<", "\n">>)
    /\ TextContent(messages[2].html) = <<"a", "<">>
    /\ messages[3] = FallbackElement

\* ------------------------------------------------------------------ C14
\* the step ends the call s of streamChatResponse
StreamEnds(s) == s \in streams /\ \A t \in streams' : t.id # s.id

\* assistant messages the call s has put on display by the end of the step
\* that ends it: the element of its answer, and what the step itself adds
AssistantShown(s) ==
    (IF s.hasElement THEN 1 ELSE 0) + (Len(messages') - Len(messages))

\* error notices the step that ends the call s shows
NoticesShown(s) ==
    IF ~StreamCommits(s) /\ errorToast' = FailureNotice THEN 1 ELSE 0

\* C14: the call of an accepted send ends having put on display exactly one
\* of: a new assistant message, an error notice (never none, never both).
C14_ExactlyOneTerminalEvent ==
    [][\A s \in streams :
          StreamEnds(s) => AssistantShown(s) + NoticesShown(s) = 1]_vars

\* ------------------------------------------------------------------ C15
\* the response reports status "healthy" and bedrock_configured true
ReportsHealthy(data) == data.status = "healthy" /\ data.bedrock_configured = "true"

\* C15: the step that completes a call of checkHealth leaves isHealthy true
\* when the response reported status "healthy" and bedrock_configured true,
\* and false for every other response and for every failure.
C15_HealthyIffReported ==
    [][\A i \in 1..Len(healthChecks) :
          /\ \A data \in HealthBodies :
                (healthChecks[i] = "json" /\ HealthCompletes(i, data)) =>
                    isHealthy' = JSBool(ReportsHealthy(data))
          /\ HealthFails(i) => isHealthy' = "false"]_vars

\* ------------------------------------------------------------------ C16
\* the step completes the call i of checkHealth
HealthCallEnds(i) == i \in 1..Len(healthChecks) /\ healthChecks' = RemoveAt(healthChecks, i)

\* C16: no call of checkHealth ends by a rejection: every call is waiting
\* for its fetch or its body until the step that completes it.  That step
\* changes isHealthy and the status indicator and nothing else (no notice,
\* no message), and when it is the fetch that failed it leaves isHealthy
\* false and the indicator offline.
C16_HealthErrorsSwallowed ==
    /\ [](\A i \in 1..Len(healthChecks) : healthChecks[i] \in {"fetch", "json"})
    /\ [][\A i \in 1..Len(healthChecks) :
            /\ healthChecks' # healthChecks =>
                  \/ Len(healthChecks') = Len(healthChecks) + 1
                  \/ \E j \in 1..Len(healthChecks) :
                        \/ HealthCallEnds(j)
                        \/ /\ healthChecks[j] = "fetch"
                           /\ healthChecks' = [healthChecks EXCEPT ![j] = "json"]
            /\ HealthCallEnds(i) =>
                  /\ statusOnline' = Truthy(isHealthy')
                  /\ UNCHANGED <<conversationHistory, isStreaming, messages,
                                 typingIndicator, errorToast, streams, chatRequests>>
            /\ (HealthCallEnds(i) /\ healthChecks[i] = "fetch") =>
                  isHealthy' = "false" /\ ~statusOnline'
            /\ HealthFails(i) => HealthCallEnds(i) /\ isHealthy' = "false"]_vars

\* the backend was healthy when a message was sent; a later check has
\* completed, no check is pending, and the session shows offline
C16_Witness ==
    /\ healthChecks = <<>>
    /\ isHealthy = "false"
    /\ ~statusOnline
    /\ errorToast = NoToast
    /\ isStreaming
    /\ \E s \in streams : s.pc = "read"

\* ------------------------------------------------------------------ C17
\* C17: a step of checkHealth (the timer starting a call, its fetch or its
\* body settling, whatever the outcome) leaves isStreaming,
\* conversationHistory and the running call of streamChatResponse as they
\* were, and a running call can go on whatever isHealthy holds: its fetch
\* can settle, and its loop can reach end-of-stream and commit.
C17_HealthCheckTouchesOnlyHealth ==
    /\ [][healthChecks' # healthChecks =>
            UNCHANGED <<isStreaming, conversationHistory, streams, messages,
                        chatRequests>>]_vars
    /\ [](\A s \in streams :
            /\ s.pc = "fetch" => ENABLED FetchSettles
            /\ (s.pc = "read" /\ ~s.cut) => ENABLED ReadDone)

\* a fragment has been applied, isHealthy has become false since the send
\* and the next check is already waiting for its body
C17_Witness ==
    /\ isStreaming
    /\ isHealthy = "false"
    /\ healthChecks = <<"json">>
    /\ \E s \in streams : s.pc = "read" /\ s.applied # <<>>

\* ------------------------------------------------------------------ C18
\* C18: handleClearChat with the confirmation accepted leaves
\* conversationHistory empty, however many messages it held, and with the
\* confirmation declined leaves it as it was; either way isHealthy,
\* isStreaming and the running call are as before.
C18_ClearEmptiesHistoryOnly ==
    [][\A confirmed \in BOOLEAN :
          ClearChat(confirmed) =>
              /\ confirmed => conversationHistory' = <<>>
              /\ ~confirmed => conversationHistory' = conversationHistory
              /\ isHealthy' = isHealthy
              /\ isStreaming' = isStreaming
              /\ streams' = streams]_vars

\* the history was cleared while the answer to the second message was being
\* read (it held that message at least): it is empty, the call runs on
C18_Witness ==
    /\ conversationHistory = <<>>
    /\ messages = <<>>
    /\ chatRequests = 2
    /\ isStreaming
    /\ isHealthy = "true"
    /\ \E s \in streams : s.pc = "read" /\ Len(s.request.conversation_history) = 3

\* ------------------------------------------------------------------ C19
\* C19: across every step that is not a confirmed clear, the history before
\* is a prefix of the history after (no Message is changed, moved or
\* removed), and a step after which the history is shorter is a confirmed
\* clear.
C19_HistoryAppendOnly ==
    [][/\ IsPrefix(conversationHistory, conversationHistory') \/ ClearChat(TRUE)
       /\ Len(conversationHistory') < Len(conversationHistory) =>
              ClearChat(TRUE) /\ conversationHistory' = <<>>]_vars

\* a question, its answer and a second question, in the order appended
C19_Witness ==
    /\ Len(conversationHistory) = 3
    /\ conversationHistory[1].role = "user"
    /\ conversationHistory[2].role = "assistant"
    /\ conversationHistory[2].content = <<"a">>
    /\ conversationHistory[3].role = "user"
    /\ conversationHistory[3].timestamp = toISOString(1)
    /\ conversationHistory[1].timestamp = toISOString(0)

\* ------------------------------------------------------------------ C20
\* the step is an accepted send of the text
AcceptedSend(text) ==
    /\ SendDecision(Trim(text), isStreaming, isHealthy) = "send"
    /\ HandleSendMessage(text)

\* the calls of streamChatResponse the step starts
Started == {s \in streams' : \A t \in streams : t.id # s.id}

\* C20: a chat-stream request is issued by an accepted send and by nothing
\* else, one per send; the step in which a request fails issues none, so
\* after a failure no request is outstanding until the next accepted send.
C20_NoAutomaticRetry ==
    /\ [](\A s \in streams : s.id = chatRequests)
    /\ [][/\ (chatRequests' # chatRequests \/ Started # {}) =>
                \E text \in Texts : AcceptedSend(text)
          /\ (\E text \in Texts : AcceptedSend(text)) =>
                /\ chatRequests' = chatRequests + 1
                /\ Cardinality(Started) = 1
                /\ \A s \in Started : s.pc = "fetch" /\ s.id = chatRequests'
          /\ TransportFailure =>
                /\ chatRequests' = chatRequests
                /\ streams' = {}
                /\ ~isStreaming']_vars

\* the one request of the session has failed, its notice has gone off
\* display with time, and no request is outstanding
C20_Witness ==
    /\ chatRequests = 1
    /\ streams = {}
    /\ ~isStreaming
    /\ errorToast = NoToast
    /\ now = 1
    /\ Len(conversationHistory) = 1
    /\ messages # <<>>
    /\ Last(messages) = FallbackElement

\* ------------------------------------------------------------------ C21
\* C21: nothing but the transport ends a call of streamChatResponse: a step
\* after which isStreaming is false, or the call is gone, is the step in
\* which the body ends (the commit) or the transport fails.  Time passing,
\* health checks and clears leave the call and isStreaming as they are, and
\* while isStreaming is true every send is rejected: it issues no request.
C21_NoTimeoutNoCancel ==
    /\ [](isStreaming <=> streams # {})
    /\ [][(isStreaming /\ (~isStreaming' \/ \E s \in streams : StreamEnds(s))) =>
             ReadDone \/ TransportFailure]_vars
    /\ [][(isStreaming /\ (Tick \/ HandleClearChat \/ CheckHealth
                               \/ HealthFetchSettles \/ HealthJsonSettles \/ HideToast)) =>
             isStreaming' /\ \A s \in streams : \E t \in streams' : t.id = s.id]_vars
    /\ [][\A text \in Texts :
             (isStreaming /\ HandleSendMessage(text)) =>
                 chatRequests' = chatRequests /\ streams' = streams /\ isStreaming']_vars

\* the body has neither ended nor failed: the clock has run out, the
\* history has been cleared, the backend has been found unhealthy, a send
\* has been rejected, and the call is still reading
C21_Witness ==
    /\ isStreaming
    /\ now = MaxClock
    /\ conversationHistory = <<>>
    /\ isHealthy = "false"
    /\ errorToast = BusyNotice
    /\ chatRequests = 1
    /\ \E s \in streams : s.pc = "read" /\ s.startTime = 0

\* ------------------------------------------------------------------ C22
\* C22: when the chat-stream request is answered with a status that is not
\* 2xx, the call ends in that step: no line of the body is delivered, no
\* fragment has been or is applied and no element of an answer is shown,
\* the failure notice is put on display, conversationHistory is left as it
\* was (no assistant Message is committed) and isStreaming is false.
C22_HttpErrorIsTransportError ==
    [][\A s \in streams :
          (s.pc = "fetch" /\ FetchResponds(s, FALSE)) =>
              /\ StreamEnds(s)
              /\ streams' = {}
              /\ ~isStreaming'
              /\ errorToast' = FailureNotice
              /\ conversationHistory' = conversationHistory
              /\ framesDelivered' = framesDelivered
              /\ s.applied = <<>> /\ ~s.hasElement
              /\ messages' = Append(messages, FallbackElement)
              /\ \A i \in 1..Len(messages') : messages'[i].id # s.id]_vars

\* the first request was answered with an error status: nothing of a body
\* was delivered, the notice and the fallback are on display after the
\* user's message, which is all the history holds
C22_Witness ==
    /\ ~isStreaming
    /\ streams = {}
    /\ chatRequests = 1
    /\ framesDelivered = 0
    /\ errorToast = FailureNotice
    /\ Len(messages) = 2
    /\ messages[1].role = "user"
    /\ messages[2] = FallbackElement
    /\ Len(conversationHistory) = 1
    /\ conversationHistory[1].role = "user"

\* ------------------------------------------------------------------ C23
\* C23: the request of an accepted send carries the trimmed text as message
\* and, as conversation_history, the whole history as the step leaves it:
\* the history before the send followed by the user Message of this send.
\* So the last entry of every request's history is a user Message whose
\* content is the request's message.
C23_RequestCarriesFullHistory ==
    /\ [](\A s \in streams :
            /\ s.request.message = s.message
            /\ s.request.conversation_history # <<>>
            /\ Last(s.request.conversation_history).role = "user"
            /\ Last(s.request.conversation_history).content = s.request.message)
    /\ [][\A text \in Texts :
            AcceptedSend(text) =>
                \A s \in Started :
                    /\ s.request.message = Trim(text)
                    /\ s.request.conversation_history = conversationHistory'
                    /\ Len(s.request.conversation_history) = Len(conversationHistory) + 1
                    /\ SubSeq(s.request.conversation_history, 1, Len(conversationHistory))
                          = conversationHistory]_vars

\* the second request awaits its response: it carries the first question,
\* its answer "a" and the second question
C23_Witness ==
    \E s \in streams :
        /\ s.pc = "fetch"
        /\ s.id = 2
        /\ s.request.conversation_history = conversationHistory
        /\ Len(s.request.conversation_history) = 3
        /\ s.request.conversation_history[2].role = "assistant"
        /\ s.request.conversation_history[2].content = <<"a">>
        /\ s.request.conversation_history[3].content = s.request.message

\* ------------------------------------------------------------------ C24
\* The field sent of a call is what the loop accumulates when every line of
\* the body arrives whole: the content fields of its content frames.
\* C24: whenever the lines delivered so far are all complete, the content
\* accumulated is what the same lines give when each arrives whole, however
\* the transport has cut the body into chunks.
C24_ChunkingDoesNotMatter ==
    \A s \in streams : ~s.cut => s.streamedContent = s.sent

\* ------------------------------------------------------------------ C25
\* C25: in every reachable state every assistant Message of the history
\* comes right after a user Message: the history does not begin with an
\* assistant Message and holds no two assistant Messages in a row.
C25_AssistantFollowsUser ==
    \A i \in 1..Len(conversationHistory) :
        conversationHistory[i].role = "assistant" =>
            i > 1 /\ conversationHistory[i - 1].role = "user"

\* ------------------------------------------------------------------ C26
\* C26: isHealthy is false at the start; it becomes true only in the step
\* in which a health check completes with a response that reports healthy;
\* a request is issued only in a step that starts with isHealthy true; and a
\* send made while isHealthy is not true issues no request and leaves the
\* history as it was.  So no request precedes the first healthy check, and
\* after an unhealthy one every send is rejected until a healthy one.
C26_SendGatedByHealth ==
    /\ isHealthy = "false" /\ chatRequests = 0
    /\ [][(~Truthy(isHealthy) /\ Truthy(isHealthy')) =>
             \E i \in 1..Len(healthChecks) : \E data \in HealthBodies :
                 /\ healthChecks[i] = "json"
                 /\ ReportsHealthy(data)
                 /\ HealthCompletes(i, data)]_vars
    /\ [][chatRequests' # chatRequests => Truthy(isHealthy)]_vars
    /\ [][\A text \in Texts :
             (~Truthy(isHealthy) /\ HandleSendMessage(text)) =>
                 /\ chatRequests' = chatRequests
                 /\ streams' = streams
                 /\ conversationHistory' = conversationHistory
                 /\ (Trim(text) # <<>> /\ ~isStreaming) => errorToast' = OfflineNotice]_vars

\* a message was sent and answered while the backend was healthy; since
\* then a check has completed unhealthy with the session idle, and the next
\* send was rejected as offline
C26_Witness ==
    /\ ~isStreaming
    /\ streams = {}
    /\ isHealthy = "false"
    /\ ~statusOnline
    /\ healthChecks = <<>>
    /\ errorToast = OfflineNotice
    /\ chatRequests = 1
    /\ Len(conversationHistory) = 2
    /\ conversationHistory[2].role = "assistant"

\* ------------------------------------------------------------------ C27
\* C27: whenever no call of checkHealth is running, isHealthy is what the
\* call started last has stored, also when the calls overlapped and an
\* earlier one completed after it.
C27_NewestCheckWins ==
    healthChecks = <<>> => isHealthy = newestOutcome

\* ------------------------------------------------------------------ C28
\* the line is a frame with a content field that is not empty and without
\* a completion marker
Contributes(line) ==
    /\ line.prefix /\ line.json = "obj"
    /\ ~line.done
    /\ line.hasContent /\ line.content # <<>>

\* the content fields of the lines that contribute, concatenated
RECURSIVE Contribution(_)
Contribution(lines) ==
    IF lines = <<>> THEN <<>>
    ELSE (IF Contributes(Head(lines)) THEN Head(lines).content ELSE <<>>)
            \o Contribution(Tail(lines))

\* C28: a frame whose payload carries a completion marker leaves the
\* accumulated content and the element as they are, also when the payload
\* carries a content field that is not empty; a line changes the accumulated
\* content exactly when it is a frame without a marker whose content field
\* is not empty, and a chunk adds to it the content fields of those lines.
C28_DoneFrameAddsNoText ==
    /\ [](\A s \in streams : \A line \in Lines :
            LET t == ProcessLine(s, line)
            IN  /\ (line.prefix /\ line.json = "obj" /\ line.done) =>
                      /\ t.streamedContent = s.streamedContent
                      /\ t.applied = s.applied
                      /\ t.html = s.html
                /\ t.streamedContent # s.streamedContent <=> Contributes(line))
    /\ [][\A s \in streams : \A c \in Chunks(MaxStreamFrames) :
            (s.pc = "read" /\ ChunkArrives(s, c[1], c[2])) =>
                \E t \in streams' :
                    /\ t.id = s.id
                    /\ t.streamedContent
                          = s.streamedContent \o Contribution(ChunkPieces(s, c[1], c[2]))]_vars

\* the fragment "<\n" has been applied and a frame with a completion marker
\* and the content "a" has been read: the content accumulated is "<\n"
C28_Witness ==
    \E s \in streams :
        /\ s.pc = "read"
        /\ s.markerSeen
        /\ s.withheld = <<"a">>
        /\ s.applied = << <<"<", "\n">> >>
        /\ s.streamedContent = <<"<", "\n">>

\* the script has ended with a failure status
ExitedWithFailure == script.pc = "exited" /\ script.exitStatus # 0

\* C29: whenever the packaging script ends unsuccessfully after it has
\* created the package directory (failed installation of the dependencies,
\* failed creation of the ZIP, unzipped size over the limit, or a command
\* failing unexpectedly), the package directory is gone when the script exits.
C29_PackageDirRemovedOnFailure ==
    ExitedWithFailure /\ script.created => ~script.packageDir

\* the upload method the thresholds call for
ExpectedUploadMethod(filesize) ==
    CASE ~filesize.empty /\ filesize.value > 50 * 1024 * 1024 -> "S3"
      [] ~filesize.empty /\ 0 < filesize.value
                         /\ filesize.value <= 50 * 1024 * 1024 -> "DIRECT"
      [] OTHER -> "UNKNOWN"

\* C30: for every ZIP size the upload method is S3 exactly when the size is
\* over 50*1024*1024 bytes, DIRECT exactly when it is positive and at most
\* that, and UNKNOWN when it is empty or 0; and a run that has reached the
\* validation of the unzipped size ends with a failure status and without the
\* success banner exactly when unzip has reported a total strictly greater
\* than 250*1024*1024 bytes.
C30_SizeThresholds ==
    /\ \A filesize \in {ShellEmpty} \cup {ShellNum(size) : size \in ZipSizes} :
           UploadMethod(filesize) = ExpectedUploadMethod(filesize)
    /\ script.UPLOAD_METHOD # "unset" =>
           script.UPLOAD_METHOD = ExpectedUploadMethod(script.FILESIZE_BYTES)
    /\ script.UNZIP_OUTPUT # "none" =>
           /\ (ExitedWithFailure /\ ~script.banner)
                  <=> (/\ script.UNZIP_OUTPUT = "listed"
                       /\ script.UNZIPPED_SIZE > 250 * 1024 * 1024)
           /\ script.pc = "exited" /\ script.exitStatus = 0 => script.banner

\* a run on both limits: a ZIP of exactly 50*1024*1024 bytes listing exactly
\* 250*1024*1024 bytes has passed the validation, is to be uploaded directly
\* and has ended with the banner printed
C30_Witness ==
    /\ script.pc = "exited"
    /\ script.exitStatus = 0
    /\ script.banner
    /\ script.FILESIZE_BYTES = ShellNum(50 * 1024 * 1024)
    /\ script.UNZIP_OUTPUT = "listed"
    /\ script.UNZIPPED_SIZE = 250 * 1024 * 1024
    /\ script.UPLOAD_METHOD = "DIRECT"

====
